---- MODULE Spec2Model ----
(***************************************************************************)
(* The Erc20 ticket contract of src/lib.rs: a token ledger (balances,      *)
(* allowances), an owner and a verifier set, a seat catalog with a taken   *)
(* flag per seat, a treasury and one proof record per account.  The host   *)
(* runs one message at a time; every action below is one whole message.    *)
(***************************************************************************)
EXTENDS Integers, Sequences, FiniteSets, TLC

\* ------------------------------------------------------------------------
\* Bounds of the model
\* ------------------------------------------------------------------------
\* Number of messages a run delivers.
MaxCalls == 2

\* Balance is u128: the model keeps an unsigned range 0..BalanceMax, scaled
\* down so that price * value can leave it.
BalanceMax == 3

Modulus == BalanceMax + 1

\* ------------------------------------------------------------------------
\* Inputs
\* ------------------------------------------------------------------------
Accounts == {"alice", "bob", "eve"}

\* The constructor's inputs.
Owners == {"alice"}

Deployers == {"bob"}

InitialSupplies == {2}

Prices == {2}

\* "A1" and "A2" are catalog seats, "Z9" is in no catalog.
SeatIds == {"A1", "A2", "Z9"}

Catalogs == {<<>>, <<"A1", "A2">>}

\* The messages' inputs: a value below, at and above a balance of 1; a
\* payment that is the price of no ticket and of one ticket.
Values == {0, 1, 2}

Payments == {0, 2}

Signatures == {"sig1"}

\* Requests: none, one catalog seat, the whole catalog, an identifier of no
\* catalog.
SeatLists == {<<>>, <<"A1">>, <<"A1", "A2">>, <<"Z9">>}

Buyers == {"eve"}

NoAccount == "none"

VARIABLES
    total_supply,       \* Lazy<Balance>
    balances,           \* AccountId -> Balance, absent key read as 0
    allowances,         \* (owner, spender) -> Balance, absent key read as 0
    price,
    owner,
    contract_balance,   \* the treasury
    proof_key,          \* partial map AccountId -> signature
    verifier,           \* AccountId -> bool, absent key read as false
    seats,              \* the catalog given to the constructor
    seat_taken,         \* partial map seat -> bool
    seat_balance,       \* partial map AccountId -> bool, never written
    has_seats,
    overflow_checks,    \* the build: arithmetic overflow traps (TRUE) or wraps
    last,               \* the message that ran last: its name, result and events
    ncalls,             \* number of messages run so far
    initial_supply,     \* history: the constructor's initial_supply
    burned,             \* history: total value of the successful burns
    sold,               \* history: seats listed by a successful purchase
    resold,             \* history: a successful purchase listed a sold seat
    granted,            \* history: (owner, spender) -> value of the last approve
    spent,              \* history: (owner, spender) -> moved by transfer_from since then
    paid_in             \* history: payments of successful purchases since the last clear

vars == <<total_supply, balances, allowances, price, owner, contract_balance,
          proof_key, verifier, seats, seat_taken, seat_balance, has_seats,
          overflow_checks, last, ncalls, initial_supply, burned, sold, resold,
          granted, spent, paid_in>>

\* ------------------------------------------------------------------------
\* Helpers
\* ------------------------------------------------------------------------
RECURSIVE SumOver(_, _)
SumOver(f, S) ==
    IF S = {} THEN 0
    ELSE LET x == CHOOSE y \in S : TRUE IN f[x] + SumOver(f, S \ {x})

SumBalances(b) == SumOver(b, DOMAIN b)

SeqToSet(s) == {s[i] : i \in 1..Len(s)}

\* StorageHashMap::insert on a partial map
MapInsert(m, k, v) == [x \in (DOMAIN m) \cup {k} |-> IF x = k THEN v ELSE m[x]]

EmptyMap == [x \in {} |-> TRUE]

\* The contract's storage as one value, the `self` of the methods.
Storage ==
    [total_supply |-> total_supply, balances |-> balances,
     allowances |-> allowances, price |-> price, owner |-> owner,
     contract_balance |-> contract_balance, proof_key |-> proof_key,
     verifier |-> verifier, seats |-> seats, seat_taken |-> seat_taken,
     seat_balance |-> seat_balance, has_seats |-> has_seats]

\* What the host gives a message: caller, attached payment, whether a payment
\* out of the contract goes through, and the build's overflow behaviour.
Env(caller, transferred, host_ok) ==
    [caller |-> caller, transferred_balance |-> transferred,
     host_ok |-> host_ok, overflow_checks |-> overflow_checks]

Outcome(self, res, events) == [self |-> self, res |-> res, events |-> events]

TransferEvent(from, to, value) ==
    [kind |-> "Transfer", from |-> from, to |-> to, value |-> value]

ApprovalEvent(o, spender, value) ==
    [kind |-> "Approval", from |-> o, to |-> spender, value |-> value]

\* The host's answer to env().transfer(to, value): the payment out of the
\* contract went through or it did not.
HostTransfer(to, value, ok) ==
    [kind |-> IF ok THEN "Payment" ELSE "PaymentFailed",
     from |-> NoAccount, to |-> to, value |-> value]

\* The error kinds a message can return.
ErrorKinds ==
    {"InsufficientBalance", "InsufficientAllowance", "IncorrectValue",
     "TransferFailed", "IncorrectPrice", "NotOwner", "NotVerifier",
     "CannotFetch", "SeatTaken", "SeatMismatch"}

\* An arithmetic result outside the unsigned range.
Overflows(n) == n > BalanceMax

Wrap(n) == n % Modulus

\* ------------------------------------------------------------------------
\* Reads
\* ------------------------------------------------------------------------
balance_of(self, o) == self.balances[o]

allowance(self, o, spender) == self.allowances[<<o, spender>>]

is_verifier(self, to) == self.verifier[to]

\* Mutant: an absent key reads as free, unwrap_or(&false).
SeatTakenFlag_absent_free(self, f) ==
    IF f \in DOMAIN self.seat_taken THEN self.seat_taken[f] ELSE FALSE

\* seat_taken.get(f).unwrap_or(&true): an absent key reads as taken
SeatTakenFlag(self, f) ==
    IF f \in DOMAIN self.seat_taken THEN self.seat_taken[f] ELSE TRUE

\* Mutant: the availability check always passes.
is_seat_available_unchecked(self, ss) == TRUE

is_seat_available(self, ss) ==
    \A i \in 1..Len(ss) : ~SeatTakenFlag(self, ss[i])

\* ------------------------------------------------------------------------
\* Messages
\* ------------------------------------------------------------------------
\* Mutant: the recipient's balance is read before the sender's is written.
transfer_from_to_stale(self, env, from, to, value) ==
    LET from_balance == balance_of(self, from)
        to_balance == balance_of(self, to)
    IN IF from_balance < value
       THEN Outcome(self, "InsufficientBalance", <<>>)
       ELSE LET s1 == [self EXCEPT !.balances[from] = from_balance - value]
                sum == to_balance + value
            IN IF Overflows(sum) /\ env.overflow_checks
               THEN Outcome(self, "Trap", <<>>)
               ELSE Outcome([s1 EXCEPT !.balances[to] = Wrap(sum)], "Ok",
                            <<TransferEvent(from, to, value)>>)

\* Mutant: the balance check is off by one.
transfer_from_to_lenient(self, env, from, to, value) ==
    LET from_balance == balance_of(self, from) IN
    IF from_balance + 1 < value
    THEN Outcome(self, "InsufficientBalance", <<>>)
    ELSE IF from_balance < value /\ env.overflow_checks
    THEN Outcome(self, "Trap", <<>>)
    ELSE LET s1 == [self EXCEPT !.balances[from] = Wrap(from_balance - value)]
             to_balance == balance_of(s1, to)
             sum == to_balance + value
         IN IF Overflows(sum) /\ env.overflow_checks
            THEN Outcome(self, "Trap", <<>>)
            ELSE Outcome([s1 EXCEPT !.balances[to] = Wrap(sum)], "Ok",
                         <<TransferEvent(from, to, value)>>)

transfer_from_to(self, env, from, to, value) ==
    LET from_balance == balance_of(self, from) IN
    IF from_balance < value
    THEN Outcome(self, "InsufficientBalance", <<>>)
    ELSE LET s1 == [self EXCEPT !.balances[from] = from_balance - value]
             to_balance == balance_of(s1, to)
             sum == to_balance + value
         IN IF Overflows(sum) /\ env.overflow_checks
            THEN Outcome(self, "Trap", <<>>)
            ELSE Outcome([s1 EXCEPT !.balances[to] = Wrap(sum)], "Ok",
                         <<TransferEvent(from, to, value)>>)

\* Mutant: a transfer that emits no notification.
transfer_unannounced(self, env, to, value) ==
    LET t == transfer_from_to(self, env, env.caller, to, value)
    IN Outcome(t.self, t.res, <<>>)

transfer(self, env, to, value) ==
    transfer_from_to(self, env, env.caller, to, value)

\* Mutant: approve adds to the allowance already granted.
approve_additive(self, env, spender, value) ==
    Outcome([self EXCEPT !.allowances[<<env.caller, spender>>] = Wrap(@ + value)],
            "Ok", <<ApprovalEvent(env.caller, spender, value)>>)

approve(self, env, spender, value) ==
    Outcome([self EXCEPT !.allowances[<<env.caller, spender>>] = value], "Ok",
            <<ApprovalEvent(env.caller, spender, value)>>)

\* Mutant: the allowance is decremented before the balances are moved.
transfer_from_debit_first(self, env, from, to, value) ==
    LET a == allowance(self, from, env.caller) IN
    IF a < value
    THEN Outcome(self, "InsufficientAllowance", <<>>)
    ELSE transfer_from_to([self EXCEPT !.allowances[<<from, env.caller>>] = a - value],
                          env, from, to, value)

\* Mutant: the balances are moved before the allowance is checked.
transfer_from_balance_first(self, env, from, to, value) ==
    LET a == allowance(self, from, env.caller)
        t == transfer_from_to(self, env, from, to, value)
    IN IF t.res # "Ok"
       THEN t
       ELSE IF a < value
       THEN Outcome(self, "InsufficientAllowance", <<>>)
       ELSE Outcome([t.self EXCEPT !.allowances[<<from, env.caller>>] = a - value],
                    "Ok", t.events)

\* Mutant: the allowance is checked but never decremented.
transfer_from_undebited(self, env, from, to, value) ==
    LET a == allowance(self, from, env.caller) IN
    IF a < value
    THEN Outcome(self, "InsufficientAllowance", <<>>)
    ELSE transfer_from_to(self, env, from, to, value)

transfer_from(self, env, from, to, value) ==
    LET a == allowance(self, from, env.caller) IN
    IF a < value
    THEN Outcome(self, "InsufficientAllowance", <<>>)
    ELSE LET t == transfer_from_to(self, env, from, to, value) IN
         IF t.res # "Ok"
         THEN t
         ELSE Outcome([t.self EXCEPT !.allowances[<<from, env.caller>>] = a - value],
                      "Ok", t.events)

\* The recorded proof of `to`; unwrap() of a missing record panics.
proof(self, env, to) ==
    IF to \in DOMAIN self.proof_key
    THEN Outcome(self, "Ok", <<>>)
    ELSE Outcome(self, "Trap", <<>>)

\* Mutant: any caller may add a verifier.
add_verifier_unguarded(self, env, to) ==
    Outcome([self EXCEPT !.verifier[to] = TRUE], "Ok", <<>>)

add_verifier(self, env, to) ==
    IF env.caller = self.owner
    THEN Outcome([self EXCEPT !.verifier[to] = TRUE], "Ok", <<>>)
    ELSE Outcome(self, "NotOwner", <<>>)

\* Mutant: the owner may burn without being a verifier.
burn_owner_exempt(self, env, from, value) ==
    IF is_verifier(self, env.caller) \/ env.caller = self.owner
    THEN LET a == balance_of(self, from) IN
         IF a < value
         THEN Outcome(self, "InsufficientAllowance", <<>>)
         ELSE Outcome([self EXCEPT !.balances[from] = a - value], "Ok", <<>>)
    ELSE Outcome(self, "NotVerifier", <<>>)

burn(self, env, from, value) ==
    IF is_verifier(self, env.caller)
    THEN LET a == balance_of(self, from) IN
         IF a < value
         THEN Outcome(self, "InsufficientAllowance", <<>>)
         ELSE Outcome([self EXCEPT !.balances[from] = a - value], "Ok", <<>>)
    ELSE Outcome(self, "NotVerifier", <<>>)

clear(self, env) ==
    IF env.caller # self.owner
    THEN Outcome(self, "IncorrectPrice", <<>>)
    ELSE Outcome([self EXCEPT !.contract_balance = 0], "Ok",
                 <<HostTransfer(self.owner, self.contract_balance, env.host_ok)>>)

RECURSIVE MarkTaken(_, _)
MarkTaken(m, ss) ==
    IF ss = <<>> THEN m ELSE MarkTaken(MapInsert(m, Head(ss), TRUE), Tail(ss))

\* Mutant: the payment is credited to the treasury before the seat checks.
purchase_tickets_paid_first(self, env, to, value, signature, ss) ==
    LET s1 == [self EXCEPT !.proof_key = MapInsert(self.proof_key, to, signature)]
        s2 == [s1 EXCEPT !.contract_balance = Wrap(@ + env.transferred_balance)]
        due == self.price * value
    IN IF Overflows(due) /\ env.overflow_checks
       THEN Outcome(self, "Trap", <<>>)
       ELSE IF Wrap(due) # env.transferred_balance
       THEN Outcome(s1, "IncorrectPrice", <<>>)
       ELSE IF ~is_seat_available(s2, ss)
       THEN Outcome(s2, "SeatTaken", <<>>)
       ELSE IF value = Len(ss)
       THEN LET t == transfer_from_to(s2, env, s2.owner, to, value)
            IN IF t.res = "Trap"
               THEN Outcome(self, "Trap", <<>>)
               ELSE Outcome([t.self EXCEPT
                                !.seat_taken = MarkTaken(t.self.seat_taken, ss)],
                            "Ok", t.events)
       ELSE Outcome(s2, "SeatMismatch", <<>>)

\* Mutant: a purchase without the seat checks.
purchase_tickets_unseated(self, env, to, value, signature, ss) ==
    LET s1 == [self EXCEPT !.proof_key = MapInsert(self.proof_key, to, signature)]
        due == self.price * value
    IN IF Overflows(due) /\ env.overflow_checks
       THEN Outcome(self, "Trap", <<>>)
       ELSE IF Wrap(due) # env.transferred_balance
       THEN Outcome(s1, "IncorrectPrice", <<>>)
       ELSE LET t == transfer_from_to(s1, env, s1.owner, to, value)
                paid == t.self.contract_balance + env.transferred_balance
            IN IF t.res = "Trap" \/ (Overflows(paid) /\ env.overflow_checks)
               THEN Outcome(self, "Trap", <<>>)
               ELSE Outcome([t.self EXCEPT !.contract_balance = Wrap(paid)],
                            "Ok", t.events)

purchase_tickets(self, env, to, value, signature, ss) ==
    LET s1 == [self EXCEPT !.proof_key = MapInsert(self.proof_key, to, signature)]
        due == self.price * value
    IN IF Overflows(due) /\ env.overflow_checks
       THEN Outcome(self, "Trap", <<>>)
       ELSE IF Wrap(due) # env.transferred_balance
       THEN Outcome(s1, "IncorrectPrice", <<>>)
       ELSE IF ~is_seat_available(s1, ss)
       THEN Outcome(s1, "SeatTaken", <<>>)
       ELSE IF value = Len(ss)
       THEN LET t == transfer_from_to(s1, env, s1.owner, to, value)
                paid == t.self.contract_balance + env.transferred_balance
            IN IF t.res = "Trap" \/ (Overflows(paid) /\ env.overflow_checks)
               THEN Outcome(self, "Trap", <<>>)
               ELSE Outcome([t.self EXCEPT !.contract_balance = Wrap(paid),
                                           !.seat_taken = MarkTaken(t.self.seat_taken, ss)],
                            "Ok", t.events)
       ELSE Outcome(s1, "SeatMismatch", <<>>)

\* ------------------------------------------------------------------------
\* The state machine
\* ------------------------------------------------------------------------
\* Run one message: commit the storage it leaves, record its result and events.
\* A trap (panic) reverts the call: its outcome carries the storage unchanged.
Commit(op, r, value, ss, pair, paid) ==
    /\ ncalls < MaxCalls
    /\ ncalls' = ncalls + 1
    /\ last' = [op |-> op, res |-> r.res, events |-> r.events]
    /\ balances' = r.self.balances
    /\ allowances' = r.self.allowances
    /\ total_supply' = r.self.total_supply
    /\ price' = r.self.price
    /\ owner' = r.self.owner
    /\ contract_balance' = r.self.contract_balance
    /\ proof_key' = r.self.proof_key
    /\ verifier' = r.self.verifier
    /\ seats' = r.self.seats
    /\ seat_taken' = r.self.seat_taken
    /\ seat_balance' = r.self.seat_balance
    /\ has_seats' = r.self.has_seats
    /\ burned' = IF op = "burn" /\ r.res = "Ok" THEN burned + value ELSE burned
    /\ sold' = IF op = "purchase_tickets" /\ r.res = "Ok"
               THEN sold \cup SeqToSet(ss) ELSE sold
    /\ resold' = IF op = "purchase_tickets" /\ r.res = "Ok"
                 THEN resold \/ (SeqToSet(ss) \cap sold # {}) ELSE resold
    /\ granted' = IF op = "approve" /\ r.res = "Ok"
                  THEN [granted EXCEPT ![pair] = value] ELSE granted
    /\ spent' = IF op = "approve" /\ r.res = "Ok"
                THEN [spent EXCEPT ![pair] = 0]
                ELSE IF op = "transfer_from" /\ r.res = "Ok"
                THEN [spent EXCEPT ![pair] = @ + value] ELSE spent
    /\ paid_in' = IF op = "purchase_tickets" /\ r.res = "Ok"
                  THEN paid_in + paid
                  ELSE IF op = "clear" /\ r.res = "Ok" THEN 0 ELSE paid_in
    /\ UNCHANGED <<overflow_checks, initial_supply>>

new(supply, p, o, ss) ==
    [total_supply |-> supply,
     balances |-> [a \in Accounts |-> IF a = o THEN supply ELSE 0],
     allowances |-> [x \in Accounts \X Accounts |-> 0],
     price |-> p, owner |-> o, contract_balance |-> 0,
     proof_key |-> EmptyMap,
     verifier |-> [a \in Accounts |-> FALSE],
     seats |-> ss, seat_taken |-> EmptyMap, seat_balance |-> EmptyMap,
     has_seats |-> (Len(ss) # 0)]

Init ==
    \E supply \in InitialSupplies, p \in Prices, o \in Owners, ss \in Catalogs,
       d \in Deployers, chk \in BOOLEAN :
        LET self == new(supply, p, o, ss) IN
        /\ total_supply = self.total_supply
        /\ balances = self.balances
        /\ allowances = self.allowances
        /\ price = self.price
        /\ owner = self.owner
        /\ contract_balance = self.contract_balance
        /\ proof_key = self.proof_key
        /\ verifier = self.verifier
        /\ seats = self.seats
        /\ seat_taken = self.seat_taken
        /\ seat_balance = self.seat_balance
        /\ has_seats = self.has_seats
        /\ overflow_checks = chk
        /\ last = [op |-> "new", res |-> "Ok",
                   events |-> <<TransferEvent(NoAccount, d, supply)>>]
        /\ ncalls = 0
        /\ initial_supply = supply
        /\ burned = 0
        /\ sold = {}
        /\ resold = FALSE
        /\ granted = [x \in Accounts \X Accounts |-> 0]
        /\ spent = [x \in Accounts \X Accounts |-> 0]
        /\ paid_in = 0

TransferCall(c, to, v) ==
    Commit("transfer", transfer(Storage, Env(c, 0, TRUE), to, v), v, <<>>,
           <<c, to>>, 0)

ApproveCall(c, sp, v) ==
    Commit("approve", approve(Storage, Env(c, 0, TRUE), sp, v), v, <<>>,
           <<c, sp>>, 0)

TransferFromCall(c, from, to, v) ==
    Commit("transfer_from", transfer_from(Storage, Env(c, 0, TRUE), from, to, v),
           v, <<>>, <<from, c>>, 0)

AddVerifierCall(c, to) ==
    Commit("add_verifier", add_verifier(Storage, Env(c, 0, TRUE), to), 0, <<>>,
           <<c, to>>, 0)

BurnCall(c, from, v) ==
    Commit("burn", burn(Storage, Env(c, 0, TRUE), from, v), v, <<>>,
           <<from, c>>, 0)

ClearCall(c, ok) ==
    Commit("clear", clear(Storage, Env(c, 0, ok)), 0, <<>>, <<c, c>>, 0)

PurchaseCall(c, to, v, sig, ss, paid) ==
    Commit("purchase_tickets",
           purchase_tickets(Storage, Env(c, paid, TRUE), to, v, sig, ss), v, ss,
           <<c, to>>, paid)

ProofCall(c, to) ==
    Commit("proof", proof(Storage, Env(c, 0, TRUE), to), 0, <<>>, <<c, to>>, 0)

Transfer ==
    \E c \in Accounts, to \in Accounts, v \in Values : TransferCall(c, to, v)

Approve ==
    \E c \in Accounts, sp \in Accounts, v \in Values : ApproveCall(c, sp, v)

TransferFrom ==
    \E c \in Accounts, from \in Accounts, to \in Accounts, v \in Values :
        TransferFromCall(c, from, to, v)

AddVerifier ==
    \E c \in Accounts, to \in Accounts : AddVerifierCall(c, to)

Burn ==
    \E c \in Accounts, from \in Accounts, v \in Values : BurnCall(c, from, v)

Clear ==
    \E c \in Accounts, ok \in BOOLEAN : ClearCall(c, ok)

PurchaseTickets ==
    \E c \in Buyers, to \in Accounts, v \in Values, sig \in Signatures,
       ss \in SeatLists, paid \in Payments :
        PurchaseCall(c, to, v, sig, ss, paid)

Proof ==
    \E c \in Buyers, to \in Accounts : ProofCall(c, to)

Next ==
    \/ Transfer
    \/ Approve
    \/ TransferFrom
    \/ AddVerifier
    \/ Burn
    \/ Clear
    \/ PurchaseTickets
    \/ Proof

Spec == Init /\ [][Next]_vars

\* ------------------------------------------------------------------------
\* Claims
\* ------------------------------------------------------------------------
PurchaseInputs == Buyers \X Accounts \X Values \X Signatures \X SeatLists \X Payments

\* The stored flag of seat s is true.
Taken(m, s) == s \in DOMAIN m /\ m[s]

\* Seat s is a catalog seat that no purchase has claimed.
NotYetTaken(s) ==
    /\ s \in SeqToSet(seats)
    /\ s \notin sold
    /\ ~Taken(seat_taken, s)

\* The balances after v tokens went from one account to another.
Moved(b, from, to, v) ==
    IF from = to THEN b ELSE [b EXCEPT ![from] = @ - v, ![to] = @ + v]

\* C1: in every reachable state the balances sum to the initial supply minus
\* the total value of the successful burns.
C1_Conservation == SumBalances(balances) = initial_supply - burned

\* A burn has removed tokens.
C1_Witness ==
    /\ last.op = "burn"
    /\ last.res = "Ok"
    /\ burned > 0

\* C2: in every reachable state total_supply() equals the sum of the balances.
C2_TotalSupplyIsSum == total_supply = SumBalances(balances)

C5_PurchaseSucceeds ==
    [][last'.op = "purchase_tickets" =>
        \A x \in PurchaseInputs :
            (/\ seats # <<>>
             /\ \A i \in 1..Len(x[5]) : NotYetTaken(x[5][i])
             /\ x[3] = Len(x[5])
             /\ x[6] = price * x[3]
             /\ balances[owner] >= x[3]
             /\ PurchaseCall(x[1], x[2], x[3], x[4], x[5], x[6]))
            => /\ last'.res = "Ok"
               /\ balances' = Moved(balances, owner, x[2], x[3])
               /\ contract_balance' = contract_balance + x[6]
               /\ \A s \in SeatIds :
                    Taken(seat_taken', s) <=>
                        (Taken(seat_taken, s) \/ s \in SeqToSet(x[5]))]_vars

\* C6: a transfer_from within the allowance but above the balance of `from`
\* returns InsufficientBalance and leaves every allowance and balance as is.
\* (Every transfer_from step either has that outcome or is no call of that
\* kind.)
C6_AllowanceKeptOnBalanceFailure ==
    [][last'.op = "transfer_from" =>
        \/ /\ last'.res = "InsufficientBalance"
           /\ allowances' = allowances
           /\ balances' = balances
        \/ ~ \E c \in Accounts, from \in Accounts, to \in Accounts, v \in Values :
                /\ v <= allowances[<<from, c>>]
                /\ v > balances[from]
                /\ TransferFromCall(c, from, to, v)]_vars

\* A transfer_from was refused for the balance of `from`.
C6_Witness ==
    /\ last.op = "transfer_from"
    /\ last.res = "InsufficientBalance"

\* C7: a transfer_from above the allowance returns InsufficientAllowance,
\* whatever the balance of `from`, and leaves every allowance and balance.
\* (Every transfer_from step either has that outcome or is no call of that
\* kind.)
C7_AllowanceChecked ==
    [][last'.op = "transfer_from" =>
        \/ /\ last'.res = "InsufficientAllowance"
           /\ allowances' = allowances
           /\ balances' = balances
        \/ ~ \E c \in Accounts, from \in Accounts, to \in Accounts, v \in Values :
                /\ v > allowances[<<from, c>>]
                /\ TransferFromCall(c, from, to, v)]_vars

\* A transfer_from was refused for the allowance.
C7_Witness ==
    /\ last.op = "transfer_from"
    /\ last.res = "InsufficientAllowance"

\* C8: a transfer of more than the caller holds returns InsufficientBalance,
\* leaves every balance as it was and emits no notification.
\* (Every transfer step either has that outcome or is no call of that kind.)
C8_FailedTransfer ==
    [][last'.op = "transfer" =>
        \/ /\ last'.res = "InsufficientBalance"
           /\ balances' = balances
           /\ last'.events = <<>>
        \/ ~ \E c \in Accounts, to \in Accounts, v \in Values :
                /\ balances[c] < v
                /\ TransferCall(c, to, v)]_vars

\* A transfer was refused for the caller's balance.
C8_Witness ==
    /\ last.op = "transfer"
    /\ last.res = "InsufficientBalance"

\* No purchase that lists a seat succeeds: seat_taken stays empty and no seat
\* is ever sold.  The case of C9 (a later request for a seat that a successful
\* purchase claimed) therefore arises in no reachable state.
NoSeatSold ==
    /\ sold = {}
    /\ seat_taken = EmptyMap
    /\ contract_balance = 0

\* C10: a purchase with value # length(seats), payment = price * value and
\* every requested seat a catalog seat not yet taken fails with SeatMismatch
\* and changes no balance, no seat flag and not the treasury.
C10_SeatMismatch ==
    [][last'.op = "purchase_tickets" =>
        \A x \in PurchaseInputs :
            (/\ x[3] # Len(x[5])
             /\ x[6] = price * x[3]
             /\ \A i \in 1..Len(x[5]) : NotYetTaken(x[5][i])
             /\ PurchaseCall(x[1], x[2], x[3], x[4], x[5], x[6]))
            => /\ last'.res = "SeatMismatch"
               /\ balances' = balances
               /\ seat_taken' = seat_taken
               /\ contract_balance' = contract_balance]_vars

\* C11: a purchase whose payment differs from price * value fails with
\* IncorrectPrice and changes no balance, no seat flag and not the treasury.
\* (Every purchase step either has that outcome or is no call of that kind.)
C11_IncorrectPrice ==
    [][last'.op = "purchase_tickets" =>
        \/ /\ last'.res = "IncorrectPrice"
           /\ balances' = balances
           /\ seat_taken' = seat_taken
           /\ contract_balance' = contract_balance
        \/ ~ \E x \in PurchaseInputs :
                /\ x[6] # price * x[3]
                /\ PurchaseCall(x[1], x[2], x[3], x[4], x[5], x[6])]_vars

\* C12: all-or-nothing.  A message that returns an error leaves balances,
\* allowances, the verifier set, the seat flags, the treasury and the proof
\* records as they were; in particular a purchase that fails with
\* IncorrectPrice, SeatTaken or SeatMismatch leaves the proof record of `to`.
C12_AllOrNothing ==
    [][last'.res # "Ok" =>
        UNCHANGED <<balances, allowances, verifier, seat_taken,
                    contract_balance, proof_key>>]_vars

\* C13: add_verifier by anyone but the owner returns NotOwner and leaves the
\* verifier set; the verifier set changes only in an add_verifier call that
\* returned Ok, and such a call is one made by the owner.
C13_AddVerifierOwnerOnly ==
    [][/\ verifier' # verifier =>
            /\ last'.op = "add_verifier"
            /\ last'.res = "Ok"
       /\ last'.op = "add_verifier" =>
            \/ /\ last'.res = "NotOwner"
               /\ verifier' = verifier
            \/ /\ last'.res = "Ok"
               /\ ~ \E c \in Accounts \ {owner}, to \in Accounts :
                        AddVerifierCall(c, to)]_vars

\* A verifier exists and an add_verifier call was refused with NotOwner.
C13_Witness ==
    /\ last.op = "add_verifier"
    /\ last.res = "NotOwner"
    /\ \E a \in Accounts : verifier[a]

\* C14: a clear called by anyone but the owner returns NotOwner and leaves
\* the treasury as it was.
\* (Every clear step either has that outcome or is no call of that kind.)
C14_ClearByNonOwner ==
    [][last'.op = "clear" =>
        \/ /\ last'.res = "NotOwner"
           /\ contract_balance' = contract_balance
        \/ ~ \E c \in Accounts \ {owner}, ok \in BOOLEAN : ClearCall(c, ok)]_vars

\* C15: a burn called by an account that is not a verifier (the owner too,
\* unless added) returns NotVerifier and changes no balance.
\* (Every burn step either has that outcome or is no call of that kind.)
C15_BurnByNonVerifier ==
    [][last'.op = "burn" =>
        \/ /\ last'.res = "NotVerifier"
           /\ balances' = balances
        \/ ~ \E c \in Accounts, from \in Accounts, v \in Values :
                /\ ~verifier[c]
                /\ BurnCall(c, from, v)]_vars

\* A burn was refused with NotVerifier while the owner is no verifier.
C15_Witness ==
    /\ last.op = "burn"
    /\ last.res = "NotVerifier"
    /\ ~verifier[owner]

\* C16: a burn called by a verifier with balance(from) < value returns
\* InsufficientBalance and leaves the balances; with balance(from) >= value
\* it returns Ok and takes exactly value from balance(from), with no other
\* balance and no allowance changed.
C16_BurnByVerifier ==
    [][last'.op = "burn" =>
        \A c \in Accounts, from \in Accounts, v \in Values :
            (verifier[c] /\ BurnCall(c, from, v)) =>
                IF balances[from] < v
                THEN /\ last'.res = "InsufficientBalance"
                     /\ balances' = balances
                ELSE /\ last'.res = "Ok"
                     /\ balances' = [balances EXCEPT ![from] = @ - v]
                     /\ allowances' = allowances]_vars

\* C17: no-seats mode.  With an empty catalog a purchase with value > 0,
\* payment = price * value and owner balance >= value returns Ok, moves value
\* tokens from the owner to `to` and adds the payment to the treasury; with an
\* empty seats list and value = 0 it returns Ok exactly when the payment is 0.
C17_NoSeatsMode ==
    [][(last'.op = "purchase_tickets" /\ seats = <<>>) =>
        \A x \in PurchaseInputs :
            PurchaseCall(x[1], x[2], x[3], x[4], x[5], x[6]) =>
                /\ (x[3] > 0 /\ x[6] = price * x[3] /\ balances[owner] >= x[3]) =>
                        /\ last'.res = "Ok"
                        /\ balances' = Moved(balances, owner, x[2], x[3])
                        /\ contract_balance' = contract_balance + x[6]
                /\ (x[5] = <<>> /\ x[3] = 0) => (last'.res = "Ok" <=> x[6] = 0)]_vars

C19_NoWrapAround ==
    [][/\ (last'.op \in {"transfer", "transfer_from", "purchase_tickets"}
            /\ last'.res = "Ok") =>
                SumBalances(balances') = SumBalances(balances)
       /\ last'.op = "purchase_tickets" =>
            /\ contract_balance' >= contract_balance
            /\ \A x \in PurchaseInputs :
                    (/\ \/ Overflows(price * x[3])
                        \/ Overflows(contract_balance + x[6])
                     /\ PurchaseCall(x[1], x[2], x[3], x[4], x[5], x[6]))
                    => /\ last'.res \in ErrorKinds
                       /\ UNCHANGED <<balances, allowances, verifier,
                                      seat_taken, contract_balance>>
                       /\ \A p \in Payments :
                            purchase_tickets(Storage, Env(x[1], p, TRUE),
                                             x[2], x[3], x[4], x[5]).res
                                = last'.res]_vars

\* C20: approve always returns Ok, sets allowance(caller, spender) to exactly
\* value, whatever it was before, and changes no other allowance and no
\* balance.
C20_Approve ==
    [][last'.op = "approve" =>
        /\ last'.res = "Ok"
        /\ balances' = balances
        /\ \A c \in Accounts, sp \in Accounts, v \in Values :
                ApproveCall(c, sp, v) =>
                    allowances' = [allowances EXCEPT ![<<c, sp>>] = v]]_vars

\* An approve set the allowance of its pair to its value while the allowance
\* granted to another pair by the call before it stands.
C20_Witness ==
    /\ last.op = "approve"
    /\ last.res = "Ok"
    /\ last.events[1].value = 1
    /\ allowances[<<last.events[1].from, last.events[1].to>>] = 1
    /\ \E x \in Accounts \X Accounts : allowances[x] = 2

\* C21: a transfer by a caller who holds at least value returns Ok, moves
\* value from the caller to `to` (a self-transfer leaves the balance), emits
\* exactly one Transfer(caller, to, value) and changes no other balance, no
\* allowance, no seat flag and not the treasury.
C21_Transfer ==
    [][last'.op = "transfer" =>
        \A c \in Accounts, to \in Accounts, v \in Values :
            (balances[c] >= v /\ TransferCall(c, to, v)) =>
                /\ last'.res = "Ok"
                /\ balances' = Moved(balances, c, to, v)
                /\ last'.events = <<TransferEvent(c, to, v)>>
                /\ UNCHANGED <<allowances, seat_taken, contract_balance>>]_vars

\* A transfer moved a positive amount between two different accounts.
C21_Witness ==
    /\ last.op = "transfer"
    /\ last.res = "Ok"
    /\ last.events[1].value > 0
    /\ last.events[1].from # last.events[1].to
    /\ balances[last.events[1].to] >= last.events[1].value

\* C22: a transfer_from by caller c with allowance(from, c) >= value and
\* balance(from) >= value returns Ok, moves exactly value from `from` to `to`
\* and lowers allowance(from, c) by exactly value, leaving the other
\* allowances; and what c has moved out of `from` by transfer_from since the
\* last approve(from -> c) never exceeds the approved amount: it is the
\* approved amount less the allowance left.
C22_TransferFrom ==
    /\ \A x \in Accounts \X Accounts :
            /\ spent[x] <= granted[x]
            /\ allowances[x] = granted[x] - spent[x]
    /\ \A c \in Accounts, from \in Accounts, v \in Values :
            (v <= allowances[<<from, c>>] /\ v <= balances[from]) =>
                \A to \in Accounts :
                    LET o == transfer_from(Storage, Env(c, 0, TRUE), from, to, v) IN
                    /\ o.res = "Ok"
                    /\ o.self.balances = Moved(balances, from, to, v)
                    /\ o.self.allowances =
                            [allowances EXCEPT ![<<from, c>>] = @ - v]

\* A transfer_from moved 1 token and left 1 of an allowance of 2.
C22_Witness ==
    /\ last.op = "transfer_from"
    /\ last.res = "Ok"
    /\ last.events[1].value = 1
    /\ \E c \in Accounts :
            /\ granted[<<last.events[1].from, c>>] = 2
            /\ spent[<<last.events[1].from, c>>] = 1
            /\ allowances[<<last.events[1].from, c>>] = 1

\* C23: no message crashes.  Every call ends in Ok or in one of the named
\* error kinds, never in a panic; proof(account) too, for an account without
\* a proof record.
C23_NoCrash == last.res \in {"Ok"} \cup ErrorKinds

====
